---- MODULE Spec2Model ----
(***************************************************************************)
(* Jokes API: the validation middleware, the three resource handlers, the  *)
(* storage-error translator and the store they run against.                *)
(*                                                                         *)
(* JavaScript strings that the code inspects character by character        *)
(* (path ids, query values, joke text, author) are sequences of            *)
(* one-character strings.  Keys and fixed messages are TLA+ strings.       *)
(* An optional value is a sequence of length 0 (absent) or 1 (present).    *)
(***************************************************************************)
EXTENDS Integers, Sequences, FiniteSets, TLC

(***************************************************************************)
(* Bounds of the model.                                                    *)
(***************************************************************************)
MaxStore == 2

(***************************************************************************)
(* JavaScript values of a request body field.                              *)
(***************************************************************************)
JSUndefined == [t |-> "undefined", s |-> <<>>]
JSNull == [t |-> "null", s |-> <<>>]
JSNumber == [t |-> "number", s |-> <<>>]
JSArray == [t |-> "array", s |-> <<>>]
JSString(chars) == [t |-> "string", s |-> chars]

None == <<>>
Some(v) == <<v>>

(***************************************************************************)
(* Number(string): ECMAScript StringToNumber on the characters the model   *)
(* draws ids from, and Number.isInteger on its result.  A number is        *)
(* sign * mant * 10^exp; NaN has nan = TRUE.                               *)
(***************************************************************************)
Digits == {"0", "1", "2", "3", "4", "5", "6", "7", "8", "9"}

HexDigits == Digits \cup {"a", "b", "c", "d", "e", "f"}

WhiteSpace == {" "}

DigitVal(c) ==
  CASE c = "0" -> 0 [] c = "1" -> 1 [] c = "2" -> 2 [] c = "3" -> 3
    [] c = "4" -> 4 [] c = "5" -> 5 [] c = "6" -> 6 [] c = "7" -> 7
    [] c = "8" -> 8 [] c = "9" -> 9 [] c = "a" -> 10 [] c = "b" -> 11
    [] c = "c" -> 12 [] c = "d" -> 13 [] c = "e" -> 14 [] c = "f" -> 15

AllIn(s, S) == \A i \in 1..Len(s) : s[i] \in S

RECURSIVE RadixVal(_, _)
RadixVal(s, radix) ==
  IF s = <<>> THEN 0
  ELSE RadixVal(SubSeq(s, 1, Len(s) - 1), radix) * radix + DigitVal(s[Len(s)])

RECURSIVE Pow10(_)
Pow10(n) == IF n = 0 THEN 1 ELSE 10 * Pow10(n - 1)

RECURSIVE TrimLeft(_)
TrimLeft(s) ==
  IF s # <<>> /\ s[1] \in WhiteSpace THEN TrimLeft(Tail(s)) ELSE s

RECURSIVE TrimRight(_)
TrimRight(s) ==
  IF s # <<>> /\ s[Len(s)] \in WhiteSpace
  THEN TrimRight(SubSeq(s, 1, Len(s) - 1)) ELSE s

Trim(s) == TrimRight(TrimLeft(s))

NaN == [nan |-> TRUE, sign |-> 1, mant |-> 0, exp |-> 0]
Num(sign, mant, exp) == [nan |-> FALSE, sign |-> sign, mant |-> mant, exp |-> exp]

IndexOf(s, c) ==
  IF \E i \in 1..Len(s) : s[i] = c
  THEN CHOOSE i \in 1..Len(s) : s[i] = c /\ \A j \in 1..(i - 1) : s[j] # c
  ELSE 0

\* The parts of s around the first occurrence of c.
Cut(s, c) ==
  [has |-> IndexOf(s, c) # 0,
   pre |-> IF IndexOf(s, c) = 0 THEN s ELSE SubSeq(s, 1, IndexOf(s, c) - 1),
   post |-> IF IndexOf(s, c) = 0 THEN <<>> ELSE SubSeq(s, IndexOf(s, c) + 1, Len(s))]

Unsigned(x) == IF x # <<>> /\ x[1] \in {"+", "-"} THEN Tail(x) ELSE x

\* ExponentPart without its "e": an optional sign and at least one digit.
ExponentOk(x) == Unsigned(x) # <<>> /\ AllIn(Unsigned(x), Digits)

ExponentVal(x) ==
  IF x[1] = "-" THEN 0 - RadixVal(Tail(x), 10) ELSE RadixVal(Unsigned(x), 10)

\* ip . fp e x : the value when the literal is well formed, NaN otherwise.
DecimalValue(sign, ip, fp, hasExp, x) ==
  IF /\ AllIn(ip, Digits) /\ AllIn(fp, Digits)
     /\ (ip # <<>> \/ fp # <<>>)
     /\ (~hasExp \/ ExponentOk(x))
  THEN Num(sign, RadixVal(ip \o fp, 10), (IF hasExp THEN ExponentVal(x) ELSE 0) - Len(fp))
  ELSE NaN

DecimalOfCuts(sign, m, e) == DecimalValue(sign, m.pre, m.post, e.has, e.post)

DecimalOfExponentCut(sign, e) == DecimalOfCuts(sign, Cut(e.pre, "."), e)

\* StrUnsignedDecimalLiteral: digits [. digits] [e exponent] or . digits [e exponent].
UnsignedDecimal(s, sign) == DecimalOfExponentCut(sign, Cut(s, "e"))

NumberOfTrimmed(s) ==
  IF s = <<>> THEN Num(1, 0, 0)
  ELSE IF Len(s) >= 2 /\ s[1] = "0" /\ s[2] = "x"
  THEN (IF Len(s) >= 3 /\ AllIn(SubSeq(s, 3, Len(s)), HexDigits)
        THEN Num(1, RadixVal(SubSeq(s, 3, Len(s)), 16), 0) ELSE NaN)
  ELSE UnsignedDecimal(Unsigned(s), IF s[1] = "-" THEN 0 - 1 ELSE 1)

Number(str) == NumberOfTrimmed(Trim(str))

NumberIsInteger(n) ==
  /\ ~n.nan
  /\ \/ n.exp >= 0
     \/ n.mant % Pow10(0 - n.exp) = 0

\* The integer a number denotes, defined when NumberIsInteger holds.
IntegerValue(n) ==
  IF n.exp >= 0 THEN n.sign * n.mant * Pow10(n.exp)
  ELSE n.sign * (n.mant \div Pow10(0 - n.exp))

\* /^\d+$/ : one or more decimal digits and nothing else.
MatchesDigits(s) == s # <<>> /\ AllIn(s, Digits)

(***************************************************************************)
(* Values a storage call can throw.  cls is the constructor the value is   *)
(* an instance of ("string", "null", "undefined" for thrown non-objects);  *)
(* target is meta.target when the error carries one.                       *)
(***************************************************************************)
KnownRequestError(code, message, target) ==
  [cls |-> "PrismaClientKnownRequestError", code |-> code,
   message |-> message, target |-> target]

OtherThrown(cls, message) ==
  [cls |-> cls, code |-> "", message |-> message, target |-> None]

ThrownValues ==
  { KnownRequestError("P2002", "Unique constraint failed", Some(<<"text">>)),
    KnownRequestError("P2002", "Unique constraint failed", None),
    KnownRequestError("P2025", "Record not found", None),
    KnownRequestError("P2003", "Foreign key constraint failed", None),
    KnownRequestError("P2014", "Required relation violation", None),
    KnownRequestError("P2024", "Connection failed", None),
    OtherThrown("PrismaClientValidationError", "Invalid data"),
    OtherThrown("PrismaClientInitializationError", "Connection failed"),
    OtherThrown("PrismaClientUnknownRequestError", "Unknown"),
    OtherThrown("Error", "Something went wrong"),
    OtherThrown("string", "string error"),
    OtherThrown("null", ""),
    OtherThrown("undefined", "") }

\* ERROR_MESSAGES with the status of P2003 taken from the row above it.
ERROR_MESSAGES_P2003As404 ==
  [c \in {"P2002", "P2025", "P2003", "P2014"} |->
     CASE c = "P2002" -> [status |-> 409, message |-> "A record with this value already exists"]
       [] c = "P2025" -> [status |-> 404, message |-> "Record not found"]
       [] c = "P2003" -> [status |-> 404, message |-> "Related record not found"]
       [] c = "P2014" -> [status |-> 400, message |-> "Required relation violation"]]

ERROR_MESSAGES ==
  [c \in {"P2002", "P2025", "P2003", "P2014"} |->
     CASE c = "P2002" -> [status |-> 409, message |-> "A record with this value already exists"]
       [] c = "P2025" -> [status |-> 404, message |-> "Record not found"]
       [] c = "P2003" -> [status |-> 400, message |-> "Related record not found"]
       [] c = "P2014" -> [status |-> 400, message |-> "Required relation violation"]]

\* One sent response, and what console.error was given while producing it.
Sent(status, body, logs) == [status |-> status, body |-> body, logs |-> logs]

\* handlePrismaError without the console.error of the 503 branch.
handlePrismaErrorSilent503(error) ==
  IF error.cls = "PrismaClientKnownRequestError"
  THEN IF error.code \in DOMAIN ERROR_MESSAGES
       THEN LET errorConfig == ERROR_MESSAGES[error.code]
                response == [error |-> errorConfig.message, code |-> error.code]
            IN Sent(errorConfig.status,
                    IF error.code = "P2002"
                    THEN response @@ [field |-> error.target]
                    ELSE response,
                    <<>>)
       ELSE Sent(400, [error |-> "Database request error", code |-> error.code,
                       message |-> error.message], <<>>)
  ELSE IF error.cls = "PrismaClientValidationError"
  THEN Sent(400, [error |-> "Invalid data provided", message |-> error.message], <<>>)
  ELSE IF error.cls = "PrismaClientInitializationError"
  THEN Sent(503, [error |-> "Database connection error"], <<>>)
  ELSE Sent(500, [error |-> "Internal server error"],
            << [label |-> "Unexpected error:", error |-> error] >>)

\* handlePrismaError whose last branch sends the message of the thrown value.
handlePrismaErrorLeaksMessage(error) ==
  IF error.cls = "PrismaClientKnownRequestError"
  THEN IF error.code \in DOMAIN ERROR_MESSAGES
       THEN LET errorConfig == ERROR_MESSAGES[error.code]
                response == [error |-> errorConfig.message, code |-> error.code]
            IN Sent(errorConfig.status,
                    IF error.code = "P2002"
                    THEN response @@ [field |-> error.target]
                    ELSE response,
                    <<>>)
       ELSE Sent(400, [error |-> "Database request error", code |-> error.code,
                       message |-> error.message], <<>>)
  ELSE IF error.cls = "PrismaClientValidationError"
  THEN Sent(400, [error |-> "Invalid data provided", message |-> error.message], <<>>)
  ELSE IF error.cls = "PrismaClientInitializationError"
  THEN Sent(503, [error |-> "Database connection error"],
            << [label |-> "Database connection error:", error |-> error] >>)
  ELSE Sent(500, [error |-> "Internal server error", message |-> error.message],
            << [label |-> "Unexpected error:", error |-> error] >>)

handlePrismaError(error) ==
  IF error.cls = "PrismaClientKnownRequestError"
  THEN IF error.code \in DOMAIN ERROR_MESSAGES
       THEN LET errorConfig == ERROR_MESSAGES[error.code]
                response == [error |-> errorConfig.message, code |-> error.code]
            IN Sent(errorConfig.status,
                    IF error.code = "P2002"
                    THEN response @@ [field |-> error.target]
                    ELSE response,
                    <<>>)
       ELSE Sent(400, [error |-> "Database request error", code |-> error.code,
                       message |-> error.message], <<>>)
  ELSE IF error.cls = "PrismaClientValidationError"
  THEN Sent(400, [error |-> "Invalid data provided", message |-> error.message], <<>>)
  ELSE IF error.cls = "PrismaClientInitializationError"
  THEN Sent(503, [error |-> "Database connection error"],
            << [label |-> "Database connection error:", error |-> error] >>)
  ELSE Sent(500, [error |-> "Internal server error"],
            << [label |-> "Unexpected error:", error |-> error] >>)

(***************************************************************************)
(* The store: table Joke, in insertion order.  author is JSNull or a       *)
(* JSString; text is a character sequence.                                 *)
(***************************************************************************)
Contains(hay, needle) ==
  \E i \in 0..(Len(hay) - Len(needle)) :
    SubSeq(hay, i + 1, i + Len(needle)) = needle

CharRank(c) == CHOOSE i \in 1..3 : <<"a", "b", "x">>[i] = c

RECURSIVE TextLeq(_, _)
TextLeq(a, b) ==
  IF a = <<>> THEN TRUE
  ELSE IF b = <<>> THEN FALSE
  ELSE IF a[1] = b[1] THEN TextLeq(Tail(a), Tail(b))
  ELSE CharRank(a[1]) < CharRank(b[1])

NoWhere == [author |-> None, text |-> None]

Matches(r, where) ==
  /\ where.author = None
     \/ (r.author.t = "string" /\ Contains(r.author.s, where.author[1]))
  /\ where.text = None \/ Contains(r.text, where.text[1])

KeyLeq(a, b, sortBy) ==
  CASE sortBy = "id" -> a.id <= b.id
    [] sortBy = "createdAt" -> a.createdAt <= b.createdAt
    [] sortBy = "text" -> TextLeq(a.text, b.text)

InOrder(a, b, sortBy, sortOrder) ==
  IF sortOrder = "asc" THEN KeyLeq(a, b, sortBy) ELSE KeyLeq(b, a, sortBy)

Arrangements(st, idx, n, sortBy, sortOrder) ==
  { q \in [1..n -> idx] :
      /\ \A j, k \in 1..n : j # k => q[j] # q[k]
      /\ \A j, k \in 1..n : j < k => InOrder(st[q[j]], st[q[k]], sortBy, sortOrder) }

RowsOf(st, idx, n, sortBy, sortOrder) ==
  { [k \in 1..n |-> st[p[k]]] : p \in Arrangements(st, idx, n, sortBy, sortOrder) }

Matching(st, where) == {i \in 1..Len(st) : Matches(st[i], where)}

\* Every arrangement of the matching rows that respects the ordering; rows
\* with equal keys may come in either order.
Orderings(st, where, sortBy, sortOrder) ==
  RowsOf(st, Matching(st, where), Cardinality(Matching(st, where)), sortBy, sortOrder)

Page(rows, skip, take) ==
  LET from == (IF skip = None THEN 0 ELSE skip[1]) + 1
      upto == IF take = None THEN Len(rows)
              ELSE IF from + take[1] - 1 < Len(rows) THEN from + take[1] - 1
              ELSE Len(rows)
  IN SubSeq(rows, from, upto)

\* The results findMany may return for its arguments.
findMany(st, args) ==
  { Page(rows, args.skip, args.take) :
      rows \in Orderings(st, args.where, args.sortBy, args.sortOrder) }

count(st, where) == Cardinality(Matching(st, where))

findUnique(st, id) ==
  IF \E i \in 1..Len(st) : st[i].id = id
  THEN Some(st[CHOOSE i \in 1..Len(st) : st[i].id = id])
  ELSE None

\* The row of a table whose id repeats the last one.
NewRowSameId(st, data, now) ==
  [id |-> IF st = <<>> THEN 1 ELSE st[Len(st)].id,
   text |-> data.text,
   author |-> IF data.author.t = "string" THEN data.author ELSE JSNull,
   createdAt |-> now]

\* The row an insert adds: autoincrement id, author NULL when not given.
NewRow(st, data, now) ==
  [id |-> IF st = <<>> THEN 1 ELSE st[Len(st)].id + 1,
   text |-> data.text,
   author |-> IF data.author.t = "string" THEN data.author ELSE JSNull,
   createdAt |-> now]

(***************************************************************************)
(* Schemas.  A parse result is success with the normalized data, or the    *)
(* list of issues, each with the path of the offending value.              *)
(***************************************************************************)
Success(data) == [success |-> TRUE, data |-> Some(data), issues |-> <<>>]
Failure(issues) == [success |-> FALSE, data |-> None, issues |-> issues]
Issue(path, message) == [path |-> path, message |-> message]

idParamSchema(params) ==
  IF MatchesDigits(params.id)
  THEN Success([id |-> IntegerValue(Number(params.id))])
  ELSE Failure(<< Issue(<<"id">>, "id must be a valid integer") >>)

\* createJokeSchema without min(1).
createJokeSchemaNoMin(body) ==
  IF body.kind # "object"
  THEN Failure(<< Issue(<<>>, "Invalid input: expected object, received array") >>)
  ELSE LET textIssues ==
             IF body.text.t # "string"
             THEN << Issue(<<"text">>, "text is required") >>
             ELSE <<>>
           authorIssues ==
             IF body.author.t \notin {"undefined", "string"}
             THEN << Issue(<<"author">>, "Invalid input: expected string, received number") >>
             ELSE <<>>
       IN IF textIssues \o authorIssues = <<>>
          THEN Success([text |-> body.text, author |-> body.author])
          ELSE Failure(textIssues \o authorIssues)

createJokeSchema(body) ==
  IF body.kind # "object"
  THEN Failure(<< Issue(<<>>, "Invalid input: expected object, received array") >>)
  ELSE LET textIssues ==
             IF body.text.t # "string"
             THEN << Issue(<<"text">>, "text is required") >>
             ELSE IF Len(body.text.s) < 1
             THEN << Issue(<<"text">>, "text cannot be empty") >>
             ELSE <<>>
           authorIssues ==
             IF body.author.t \notin {"undefined", "string"}
             THEN << Issue(<<"author">>, "Invalid input: expected string, received number") >>
             ELSE <<>>
       IN IF textIssues \o authorIssues = <<>>
          THEN Success([text |-> body.text, author |-> body.author])
          ELSE Failure(textIssues \o authorIssues)

\* The page refinement with the comparison off by one.
AtLeastZero(n) == n >= 0

AtLeastOne(n) == n >= 1

OneToHundred(n) == n >= 1 /\ n <= 100

\* page: digit string, transformed to a number, at least 1.
PageIssues(page) ==
  IF page = None THEN <<>>
  ELSE IF ~MatchesDigits(page[1])
  THEN << Issue(<<"page">>, "page must be a positive integer") >>
  ELSE IF ~AtLeastOne(IntegerValue(Number(page[1])))
  THEN << Issue(<<"page">>, "page must be at least 1") >>
  ELSE <<>>

\* limit: digit string, transformed to a number, between 1 and 100.
LimitIssues(limit) ==
  IF limit = None THEN <<>>
  ELSE IF ~MatchesDigits(limit[1])
  THEN << Issue(<<"limit">>, "limit must be a positive integer") >>
  ELSE IF ~OneToHundred(IntegerValue(Number(limit[1])))
  THEN << Issue(<<"limit">>, "limit must be between 1 and 100") >>
  ELSE <<>>

EnumIssues(key, value, options) ==
  IF value = None \/ value[1] \in options THEN <<>>
  ELSE << Issue(<<key>>, "Invalid option") >>

QueryIssues(query) ==
  PageIssues(query.page) \o LimitIssues(query.limit)
    \o EnumIssues("sortBy", query.sortBy, {"id", "createdAt", "text"})
    \o EnumIssues("sortOrder", query.sortOrder, {"asc", "desc"})

\* The final transform: defaults for what is absent.
\* The final transform with another default for limit.
QueryDefaultsLimit20(page, limit, query) ==
  [page |-> IF page = None THEN 1 ELSE page[1],
   limit |-> IF limit = None THEN 20 ELSE limit[1],
   author |-> query.author,
   search |-> query.search,
   sortBy |-> IF query.sortBy = None THEN "id" ELSE query.sortBy[1],
   sortOrder |-> IF query.sortOrder = None THEN "desc" ELSE query.sortOrder[1]]

QueryDefaults(page, limit, query) ==
  [page |-> IF page = None THEN 1 ELSE page[1],
   limit |-> IF limit = None THEN 10 ELSE limit[1],
   author |-> query.author,
   search |-> query.search,
   sortBy |-> IF query.sortBy = None THEN "id" ELSE query.sortBy[1],
   sortOrder |-> IF query.sortOrder = None THEN "desc" ELSE query.sortOrder[1]]

Transformed(value) ==
  IF value = None THEN None ELSE Some(IntegerValue(Number(value[1])))

QueryParsed(query, issues) ==
  IF issues # <<>> THEN Failure(issues)
  ELSE Success(QueryDefaults(Transformed(query.page), Transformed(query.limit), query))

getJokesQuerySchema(query) == QueryParsed(query, QueryIssues(query))

safeParse(schema, value) ==
  CASE schema = "idParamSchema" -> idParamSchema(value)
    [] schema = "getJokesQuerySchema" -> getJokesQuerySchema(value)
    [] schema = "createJokeSchema" -> createJokeSchema(value)

(***************************************************************************)
(* The validation middleware.                                              *)
(***************************************************************************)
RECURSIVE JoinPath(_)
JoinPath(path) ==
  IF path = <<>> THEN ""
  ELSE IF Len(path) = 1 THEN path[1]
  ELSE path[1] \o "." \o JoinPath(Tail(path))

formatZodError(issues) ==
  [i \in 1..Len(issues) |->
     [field |-> IF JoinPath(issues[i].path) = "" THEN "unknown"
                ELSE JoinPath(issues[i].path),
      message |-> issues[i].message]]

\* The outcome of one request part: whether a schema is declared for it and,
\* if so, the parse result.
Part(schema, value) ==
  IF schema = None THEN [declared |-> FALSE, result |-> Success(value)]
  ELSE [declared |-> TRUE, result |-> safeParse(schema[1], value)]

PartErrors(part) ==
  IF part.declared /\ ~part.result.success THEN formatZodError(part.result.issues)
  ELSE <<>>

\* What the part leaves on the request: unchanged without a schema or on
\* failure, the normalized data on success.
Attach(old, part) ==
  IF part.declared /\ part.result.success THEN part.result.data ELSE old

Respond(r, status, body) ==
  [r EXCEPT !.responses = Append(@, [status |-> status, body |-> body])]

Finish(r) == [r EXCEPT !.pc = "done"]

\* validate without the return after the 400: next() is called as well.
ValidateEndFallsThrough(r, errors) ==
  IF Len(errors) > 0
  THEN [Respond(r, 400, [error |-> "Validation failed", details |-> errors])
          EXCEPT !.nextCalled = TRUE, !.pc = "handler"]
  ELSE [r EXCEPT !.nextCalled = TRUE, !.pc = "handler"]

ValidateEnd(r, errors) ==
  IF Len(errors) > 0
  THEN Finish(Respond(r, 400, [error |-> "Validation failed", details |-> errors]))
  ELSE [r EXCEPT !.nextCalled = TRUE, !.pc = "handler"]

\* validate that reports the first failing part only.
ValidatePartsFirstOnly(r, params, query, body) ==
  ValidateEnd([r EXCEPT !.validatedParams = Attach(@, params),
                        !.validatedQuery = Attach(@, query),
                        !.validatedBody = Attach(@, body)],
              IF PartErrors(params) # <<>> THEN PartErrors(params)
              ELSE IF PartErrors(query) # <<>> THEN PartErrors(query)
              ELSE PartErrors(body))

\* validate that attaches the normalized values only when every part passes.
ValidatePartsAllOrNothing(r, params, query, body) ==
  IF PartErrors(params) \o PartErrors(query) \o PartErrors(body) # <<>>
  THEN ValidateEnd(r, PartErrors(params) \o PartErrors(query) \o PartErrors(body))
  ELSE ValidateEnd([r EXCEPT !.validatedParams = Attach(@, params),
                             !.validatedQuery = Attach(@, query),
                             !.validatedBody = Attach(@, body)], <<>>)

ValidateParts(r, params, query, body) ==
  ValidateEnd([r EXCEPT !.validatedParams = Attach(@, params),
                        !.validatedQuery = Attach(@, query),
                        !.validatedBody = Attach(@, body)],
              PartErrors(params) \o PartErrors(query) \o PartErrors(body))

validate(schemas, r) ==
  ValidateParts(r, Part(schemas.params, r.params), Part(schemas.query, r.query),
                Part(schemas.body, r.body))

(***************************************************************************)
(* Requests the model issues.                                              *)
(***************************************************************************)
Query(page, limit, author, search, sortBy, sortOrder) ==
  [page |-> page, limit |-> limit, author |-> author, search |-> search,
   sortBy |-> sortBy, sortOrder |-> sortOrder]

NoQuery == Query(None, None, None, None, None, None)

Body(kind, text, author) == [kind |-> kind, text |-> text, author |-> author]

NoBody == Body("object", JSUndefined, JSUndefined)

NoParams == [id |-> <<>>]

Request(op, params, query, body) ==
  [op |-> op, params |-> params, query |-> query, body |-> body]

IdStrings ==
  { <<"1">>, <<"2">>, <<"0">>, <<"9">>, <<"0", "1">>, <<"-", "1">>,
    <<"+", "1">>, <<" ", "1">>, <<"1", ".", "0">>, <<"1", ".", "5">>,
    <<"1", "e", "0">>, <<"0", "x", "1">>, <<"a", "b", "c">> }

TextValues ==
  { JSUndefined, JSNull, JSNumber, JSArray,
    JSString(<<>>), JSString(<<"a">>), JSString(<<"a", "b">>) }

AuthorValues == { JSUndefined, JSString(<<"x">>), JSNumber }

Bodies ==
  { Body("object", t, a) : t \in TextValues, a \in AuthorValues }
    \cup { Body("array", JSUndefined, JSUndefined) }

PageStrings == { None, Some(<<"1">>), Some(<<"2">>), Some(<<"0">>), Some(<<"a">>) }

LimitStrings ==
  { None, Some(<<"1">>), Some(<<"2">>), Some(<<"0">>), Some(<<"1", "0", "1">>) }

Queries ==
  { Query(p, l, None, None, None, None) : p \in PageStrings, l \in LimitStrings }
    \cup { Query(None, l, a, t, None, None) :
             l \in {None, Some(<<"1">>)},
             a \in {None, Some(<<"x">>), Some(<<>>)},
             t \in {None, Some(<<"b">>)} }
    \cup { Query(None, None, None, None, f, o) :
             f \in {None, Some("id"), Some("createdAt"), Some("text"), Some("name")},
             o \in {None, Some("asc"), Some("desc"), Some("up")} }

\* Requests to the three routes.
RouteRequests ==
  { Request("getAll", NoParams, q, NoBody) : q \in Queries }
    \cup { Request("getById", [id |-> i], NoQuery, NoBody) : i \in IdStrings }
    \cup { Request("create", NoParams, NoQuery, b) : b \in Bodies }

\* Requests to a route that declares a schema for every part.
CombinedRequests ==
  { Request("combined", [id |-> i], q, b) :
      i \in { <<"1">>, <<"a", "b", "c">> },
      q \in { NoQuery, Query(Some(<<"0">>), None, None, None, None, None) },
      b \in { Body("object", JSString(<<"a">>), JSUndefined),
              Body("object", JSString(<<>>), JSUndefined),
              Body("array", JSUndefined, JSUndefined) } }

(***************************************************************************)
(* State.                                                                  *)
(***************************************************************************)
Variants == {"validated", "inlineController", "inlineRoutes"}

\* Requests in flight are held in slots; Spec serves one request at a time.
Slots == {1, 2}

Serial == {1}

\* variant: which of the repository's variants is deployed.
\* store: the Joke table.  req: the request of each slot.
\* createLog: for each row of store, the body of the create request that
\* inserted it and the record that request was answered with.
VARIABLES variant, store, req, createLog

vars == <<variant, store, req, createLog>>

IdleReq ==
  [pc |-> "idle", op |-> "none", params |-> NoParams, query |-> NoQuery,
   body |-> NoBody, validatedParams |-> None, validatedQuery |-> None,
   validatedBody |-> None, nextCalled |-> FALSE, calls |-> <<>>,
   pending |-> {}, seen |-> <<>>, jokes |-> None, total |-> None,
   thrown |-> <<>>, responses |-> <<>>, logs |-> <<>>]

Init ==
  /\ variant \in Variants
  /\ store = <<>>
  /\ req = [s \in Slots |-> IdleReq]
  /\ createLog = <<>>

\* The schemas each route hands to validate.
createJokesRoutes(op) ==
  CASE op = "getAll" ->
         [params |-> None, query |-> Some("getJokesQuerySchema"), body |-> None]
    [] op = "getById" ->
         [params |-> Some("idParamSchema"), query |-> None, body |-> None]
    [] op = "create" ->
         [params |-> None, query |-> None, body |-> Some("createJokeSchema")]
    [] op = "combined" ->
         [params |-> Some("idParamSchema"), query |-> Some("getJokesQuerySchema"),
          body |-> Some("createJokeSchema")]

Call(fn, args) == [fn |-> fn, args |-> args]

Issue1(r, fn, args) ==
  [r EXCEPT !.calls = Append(@, Call(fn, args)), !.pending = @ \cup {fn},
            !.pc = "await"]

Translated(r, sent) ==
  Finish([Respond(r, sent.status, sent.body) EXCEPT !.logs = @ \o sent.logs])

SendTranslated(r, error) == Translated(r, handlePrismaError(error))

ArgsOf(r, fn) == r.calls[CHOOSE i \in 1..Len(r.calls) : r.calls[i].fn = fn].args

(***************************************************************************)
(* Handlers up to their storage calls.  The validated controller reads the *)
(* values validate attached; the inline ones read the raw request.         *)
(***************************************************************************)
Truthy(v) == v.t \in {"number", "array"} \/ (v.t = "string" /\ v.s # <<>>)

\* The filter built with else-if: search is dropped when author is given.
WhereOfElseIf(q) ==
  [author |-> IF q.author # None /\ q.author[1] # <<>> THEN q.author ELSE None,
   text |-> IF q.author # None /\ q.author[1] # <<>> THEN None
            ELSE IF q.search # None /\ q.search[1] # <<>> THEN q.search ELSE None]

WhereOf(q) ==
  [author |-> IF q.author # None /\ q.author[1] # <<>> THEN q.author ELSE None,
   text |-> IF q.search # None /\ q.search[1] # <<>> THEN q.search ELSE None]

\* The page fetch with the direction left at its default.
getAllCallsAlwaysDesc(q, skip, where) ==
  << Call("findMany", [where |-> where, sortBy |-> q.sortBy, sortOrder |-> "desc",
                       skip |-> Some(skip), take |-> Some(q.limit)]),
     Call("count", [where |-> where]) >>

\* The page fetch asking for one record more than the page size.
getAllCallsTakesOneMore(q, skip, where) ==
  << Call("findMany", [where |-> where, sortBy |-> q.sortBy, sortOrder |-> q.sortOrder,
                       skip |-> Some(skip), take |-> Some(q.limit + 1)]),
     Call("count", [where |-> where]) >>

getAllCalls(q, skip, where) ==
  << Call("findMany", [where |-> where, sortBy |-> q.sortBy, sortOrder |-> q.sortOrder,
                       skip |-> Some(skip), take |-> Some(q.limit)]),
     Call("count", [where |-> where]) >>

\* The offset computed as page - 1, without the page size.
getAllQuerySkipsRows(r, q) ==
  [r EXCEPT !.calls = @ \o getAllCalls(q, q.page - 1, WhereOf(q)),
            !.pending = {"findMany", "count"},
            !.pc = "await"]

\* The offset computed as page * limit.
getAllQuerySkipsPage(r, q) ==
  [r EXCEPT !.calls = @ \o getAllCalls(q, q.page * q.limit, WhereOf(q)),
            !.pending = {"findMany", "count"},
            !.pc = "await"]

getAllQuery(r, q) ==
  [r EXCEPT !.calls = @ \o getAllCalls(q, (q.page - 1) * q.limit, WhereOf(q)),
            !.pending = {"findMany", "count"},
            !.pc = "await"]

\* getAll reading the query from a place the requests in flight share.
getAllSharedQuery(r) ==
  getAllQuery(r, IF req[1].validatedQuery # None THEN req[1].validatedQuery[1]
                 ELSE r.validatedQuery[1])

getAll(r) == getAllQuery(r, r.validatedQuery[1])

getAllInline(r) ==
  Issue1(r, "findMany", [where |-> NoWhere, sortBy |-> "id", sortOrder |-> "desc",
                         skip |-> None, take |-> None])

getById(r) == Issue1(r, "findUnique", [id |-> r.validatedParams[1].id])

\* The integer check thrown inside the try block.
getByIdNumberThrows(r, id) ==
  IF ~NumberIsInteger(id)
  THEN SendTranslated(r, OtherThrown("Error", "id must be an integer"))
  ELSE Issue1(r, "findUnique", [id |-> IntegerValue(id)])

getByIdNumber(r, id) ==
  IF ~NumberIsInteger(id)
  THEN Finish(Respond(r, 400, [error |-> "id must be an integer"]))
  ELSE Issue1(r, "findUnique", [id |-> IntegerValue(id)])

getByIdInline(r) == getByIdNumber(r, Number(r.params.id))

\* create that fills author from the text.
createAuthorFromText(r) ==
  Issue1(r, "create", [data |-> [text |-> r.validatedBody[1].text.s,
                                 author |-> r.validatedBody[1].text]])

create(r) ==
  Issue1(r, "create", [data |-> [text |-> r.validatedBody[1].text.s,
                                 author |-> r.validatedBody[1].author]])

\* The inline check without its emptiness test.
createFieldsTypeOnly(r, text, author) ==
  IF text.t # "string"
  THEN Finish(Respond(r, 400, [error |-> "Missing required field: text"]))
  ELSE Issue1(r, "create", [data |-> [text |-> text.s, author |-> author]])

createFields(r, text, author) ==
  IF ~Truthy(text) \/ text.t # "string"
  THEN Finish(Respond(r, 400, [error |-> "Missing required field: text"]))
  ELSE Issue1(r, "create", [data |-> [text |-> text.s, author |-> author]])

createInline(r) ==
  createFields(r, IF r.body.kind = "object" THEN r.body.text ELSE JSUndefined,
               IF r.body.kind = "object" THEN r.body.author ELSE JSUndefined)

\* Math.floor in place of Math.ceil.
FloorDiv(a, b) == a \div b

CeilDiv(a, b) == (a + b - 1) \div b

Pagination(q, total) ==
  [page |-> q.page, limit |-> q.limit, total |-> total,
   totalPages |-> CeilDiv(total, q.limit)]

\* getAll once both reads have resolved.
getAllResult(r, jokes, total) ==
  Finish(Respond(r, 200, [data |-> jokes,
                          pagination |-> Pagination(r.validatedQuery[1], total)]))

getAllInlineResult(r, jokes) == Finish(Respond(r, 200, jokes))

\* getById without the null check.
getByIdResultNoNullCheck(r, joke) ==
  Finish(Respond(r, 200, IF joke = None THEN JSNull ELSE joke[1]))

\* getById that sends nothing when the record is missing.
getByIdResultSilentOnNull(r, joke) ==
  IF joke = None THEN r
  ELSE Finish(Respond(r, 200, joke[1]))

getByIdResult(r, joke) ==
  IF joke = None
  THEN Finish(Respond(r, 404, [error |-> "Joke not found"]))
  ELSE Finish(Respond(r, 200, joke[1]))

\* create answering with the default status.
createResultStatus200(r, joke) == Finish(Respond(r, 200, joke))

createResult(r, joke) == Finish(Respond(r, 201, joke))

\* A rejected storage call reaches the catch block, where there is one.
Caught(r, error) ==
  IF variant = "inlineRoutes"
  THEN [r EXCEPT !.pc = "escaped"]
  ELSE SendTranslated(r, error)

Settle(r, fn) ==
  [r EXCEPT !.pending = @ \ {fn}, !.seen = Append(@, [fn |-> fn, len |-> Len(store)])]

\* Promise.all over the page fetch and the count: the handler continues when
\* both have resolved; a result that arrives after a rejection is dropped.
\* The total taken from the page when the page fetch completes last.
AfterFindManyCountsPage(r, jokes) ==
  IF r.pc # "await" THEN r
  ELSE IF variant # "validated" THEN getAllInlineResult(r, jokes)
  ELSE IF r.total # None THEN getAllResult(r, jokes, Len(jokes))
  ELSE r

AfterFindMany(r, jokes) ==
  IF r.pc # "await" THEN r
  ELSE IF variant # "validated" THEN getAllInlineResult(r, jokes)
  ELSE IF r.total # None THEN getAllResult(r, jokes, r.total[1])
  ELSE r

AfterCount(r, total) ==
  IF r.pc # "await" THEN r
  ELSE IF r.jokes # None THEN getAllResult(r, r.jokes[1], total)
  ELSE r

\* Every rejection reported, also one that arrives after the handler has
\* answered.
AfterRejectEachReported(r, error) ==
  Caught([r EXCEPT !.thrown = Append(@, error)], error)

\* A rejected call issued once more before the failure is reported.
AfterRejectRetries(r, error) ==
  IF r.pc # "await" THEN r
  ELSE IF Len(r.calls) < 3
  THEN [r EXCEPT !.calls = Append(@, @[Len(@)]),
                 !.pending = @ \cup {r.calls[Len(r.calls)].fn}]
  ELSE Caught([r EXCEPT !.thrown = Append(@, error)], error)

\* A rejection after Promise.all has settled never reaches the handler.
AfterReject(r, error) ==
  IF r.pc # "await" THEN r
  ELSE Caught([r EXCEPT !.thrown = Append(@, error)], error)

(***************************************************************************)
(* Actions.                                                                *)
(***************************************************************************)
(***************************************************************************)
(* Two requests in service at once on the validated routes, as the event   *)
(* loop interleaves them at each await.                                    *)
(***************************************************************************)
TwoRequests ==
  { Request("getAll", NoParams, Query(p, l, None, None, None, None), NoBody) :
      p \in {None, Some(<<"2">>)}, l \in {None, Some(<<"1">>)} }
    \cup { Request("getById", [id |-> <<"1">>], NoQuery, NoBody),
           Request("getById", [id |-> <<"a", "b", "c">>], NoQuery, NoBody),
           Request("create", NoParams, NoQuery,
                   Body("object", JSString(<<"a">>), JSUndefined)) }

\* The request as the router hands it on.
Arrived(in, pc) ==
  [IdleReq EXCEPT !.op = in.op, !.params = in.params, !.query = in.query,
                  !.body = in.body, !.pc = pc]

RequestOf(r) == Request(r.op, r.params, r.query, r.body)

Requests == RouteRequests \cup CombinedRequests \cup TwoRequests

Validations ==
  [in \in Requests |->
     validate(createJokesRoutes(in.op), Arrived(in, "validate"))]

Receive(s, in) ==
  /\ req[s].pc = "idle"
  /\ variant = "validated" \/ in.op # "combined"
  /\ variant = "validated" \/ in.query = NoQuery
  /\ req' = [req EXCEPT ![s] =
               Arrived(in, IF variant = "validated" THEN "validate" ELSE "handler")]
  /\ UNCHANGED <<variant, store, createLog>>

Validate(s) ==
  /\ req[s].pc = "validate"
  /\ req' = [req EXCEPT ![s] = Validations[RequestOf(@)]]
  /\ UNCHANGED <<variant, store, createLog>>

Handler(s) ==
  /\ req[s].pc = "handler"
  /\ req' = [req EXCEPT ![s] =
       IF variant = "validated"
       THEN CASE @.op = "getAll" -> getAll(@)
              [] @.op = "getById" -> getById(@)
              [] @.op = "create" -> create(@)
              [] @.op = "combined" -> Finish(@)
       ELSE CASE @.op = "getAll" -> getAllInline(@)
              [] @.op = "getById" -> getByIdInline(@)
              [] @.op = "create" -> createInline(@)]
  /\ UNCHANGED <<variant, store, createLog>>

FindUniqueResolves(s) ==
  /\ "findUnique" \in req[s].pending
  /\ req' = [req EXCEPT ![s] =
       getByIdResult(Settle(@, "findUnique"),
                     findUnique(store, ArgsOf(@, "findUnique").id))]
  /\ UNCHANGED <<variant, store, createLog>>

CreatedAtChoices ==
  IF store = <<>> THEN {1}
  ELSE {store[Len(store)].createdAt, store[Len(store)].createdAt + 1}

CreateResolves(s) ==
  /\ "create" \in req[s].pending
  /\ Len(store) < MaxStore
  /\ ArgsOf(req[s], "create").data.author.t \in {"undefined", "null", "string"}
  /\ \E joke \in {NewRow(store, ArgsOf(req[s], "create").data, now) :
                    now \in CreatedAtChoices} :
       /\ store' = Append(store, joke)
       /\ req' = [req EXCEPT ![s] = createResult(Settle(@, "create"), joke)]
       /\ createLog' = Append(createLog, [body |-> req[s].body, answer |-> joke])
  /\ UNCHANGED variant

FindManyResolves(s) ==
  /\ "findMany" \in req[s].pending
  /\ \E jokes \in findMany(store, ArgsOf(req[s], "findMany")) :
       req' = [req EXCEPT ![s] =
                 AfterFindMany([Settle(@, "findMany") EXCEPT !.jokes = Some(jokes)],
                               jokes)]
  /\ UNCHANGED <<variant, store, createLog>>

CountResolves(s) ==
  /\ "count" \in req[s].pending
  /\ \E total \in {count(store, ArgsOf(req[s], "count").where)} :
       req' = [req EXCEPT ![s] =
                 AfterCount([Settle(@, "count") EXCEPT !.total = Some(total)], total)]
  /\ UNCHANGED <<variant, store, createLog>>

\* An insert that is reported as failed after its record has been written.
RejectsAfterWrite(s, fn, error) ==
  /\ fn \in req[s].pending
  /\ req' = [req EXCEPT ![s] = AfterReject(Settle(@, fn), error)]
  /\ store' = IF fn = "create" /\ Len(store) < MaxStore
              THEN Append(store, NewRow(store, ArgsOf(req[s], "create").data, 1))
              ELSE store
  /\ UNCHANGED <<variant, createLog>>

Rejects(s, fn, error) ==
  /\ fn \in req[s].pending
  /\ req' = [req EXCEPT ![s] =
               AfterReject(Settle(@, fn), error)]
  /\ UNCHANGED <<variant, store, createLog>>

Reset(s) ==
  /\ req[s].pc \in {"done", "escaped"}
  /\ req[s].pending = {}
  /\ req' = [req EXCEPT ![s] = IdleReq]
  /\ UNCHANGED <<variant, store, createLog>>

Next ==
  \/ \E s \in Serial, in \in RouteRequests \cup CombinedRequests : Receive(s, in)
  \/ \E s \in Serial : Validate(s)
  \/ \E s \in Serial : Handler(s)
  \/ \E s \in Serial : FindUniqueResolves(s)
  \/ \E s \in Serial : CreateResolves(s)
  \/ \E s \in Serial : FindManyResolves(s)
  \/ \E s \in Serial : CountResolves(s)
  \/ \E s \in Serial, fn \in {"findUnique", "create", "findMany", "count"},
        error \in ThrownValues : Rejects(s, fn, error)
  \/ \E s \in Serial : Reset(s)

Spec == Init /\ [][Next]_vars

TwoThrown == { OtherThrown("PrismaClientInitializationError", "Connection failed") }

InitTwo ==
  /\ variant = "validated"
  /\ store = <<>>
  /\ req = [s \in Slots |-> IdleReq]
  /\ createLog = <<>>

NextTwo ==
  \/ \E s \in Slots, in \in TwoRequests : Receive(s, in)
  \/ \E s \in Slots : Validate(s)
  \/ \E s \in Slots : Handler(s)
  \/ \E s \in Slots : FindUniqueResolves(s)
  \/ \E s \in Slots : CreateResolves(s)
  \/ \E s \in Slots : FindManyResolves(s)
  \/ \E s \in Slots : CountResolves(s)
  \/ \E s \in Slots, fn \in {"findUnique", "create", "findMany", "count"},
        error \in TwoThrown : Rejects(s, fn, error)
  \/ \E s \in Slots : Reset(s)

SpecTwo == InitTwo /\ [][NextTwo]_vars

\* The validated routes alone, one request at a time, with one kind of
\* storage failure.
NextValidated ==
  \/ \E s \in Serial, in \in RouteRequests \cup CombinedRequests : Receive(s, in)
  \/ \E s \in Serial : Validate(s)
  \/ \E s \in Serial : Handler(s)
  \/ \E s \in Serial : FindUniqueResolves(s)
  \/ \E s \in Serial : CreateResolves(s)
  \/ \E s \in Serial : FindManyResolves(s)
  \/ \E s \in Serial : CountResolves(s)
  \/ \E s \in Serial, fn \in {"findUnique", "create", "findMany", "count"},
        error \in TwoThrown : Rejects(s, fn, error)
  \/ \E s \in Serial : Reset(s)

SpecValidated == InitTwo /\ [][NextValidated]_vars

\* Two requests in service under the scheduling the runtime gives: a request
\* received is passed to validate and then to its handler, and every storage
\* call issued is settled, by a result or by a rejection.
LiveRequests == {in \in TwoRequests : in.query = NoQuery}

NextLive ==
  \/ \E s \in Slots, in \in LiveRequests : Receive(s, in)
  \/ \E s \in Slots : Validate(s)
  \/ \E s \in Slots : Handler(s)
  \/ \E s \in Slots : FindUniqueResolves(s)
  \/ \E s \in Slots : CreateResolves(s)
  \/ \E s \in Slots : FindManyResolves(s)
  \/ \E s \in Slots : CountResolves(s)
  \/ \E s \in Slots, fn \in {"findUnique", "create", "findMany", "count"},
        error \in TwoThrown : Rejects(s, fn, error)
  \/ \E s \in Slots : Reset(s)

Resolves(s, fn) ==
  CASE fn = "findUnique" -> FindUniqueResolves(s)
    [] fn = "create" -> CreateResolves(s)
    [] fn = "findMany" -> FindManyResolves(s)
    [] fn = "count" -> CountResolves(s)

Settles(s, fn) == Resolves(s, fn) \/ \E error \in TwoThrown : Rejects(s, fn, error)

\* The next step of the request in slot s.
Step(s) ==
  \/ Validate(s)
  \/ Handler(s)
  \/ \E fn \in {"findUnique", "create", "findMany", "count"} : Settles(s, fn)

SpecLive == InitTwo /\ [][NextLive]_vars /\ \A s \in Slots : WF_vars(Step(s))

(***************************************************************************)
(* Vocabulary of the properties.                                           *)
(***************************************************************************)
\* The request has been through the error translator.
WasTranslated(r) == r.thrown # <<>> /\ variant # "inlineRoutes"

\* The rows of the storage-failure table: status, error text, keys of the body.
MappingTable ==
  << [status |-> 409, error |-> "A record with this value already exists",
      keys |-> {"error", "code", "field"}],
     [status |-> 404, error |-> "Record not found", keys |-> {"error", "code"}],
     [status |-> 400, error |-> "Related record not found", keys |-> {"error", "code"}],
     [status |-> 400, error |-> "Required relation violation", keys |-> {"error", "code"}],
     [status |-> 400, error |-> "Database request error",
      keys |-> {"error", "code", "message"}],
     [status |-> 400, error |-> "Invalid data provided", keys |-> {"error", "message"}],
     [status |-> 503, error |-> "Database connection error", keys |-> {"error"}],
     [status |-> 500, error |-> "Internal server error", keys |-> {"error"}] >>

RowMatches(row, resp) ==
  /\ resp.status = row.status
  /\ DOMAIN resp.body = row.keys
  /\ resp.body.error = row.error

Reply(status, body) == [status |-> status, body |-> body]

IsKnown(e, code) == e.cls = "PrismaClientKnownRequestError" /\ e.code = code

\* One or more decimal digits / the same after an optional minus sign.
IsDecimal(str) == str # <<>> /\ \A i \in 1..Len(str) : str[i] \in Digits

IsSignedDecimal(str) ==
  str # <<>> /\ IsDecimal(IF str[1] = "-" THEN Tail(str) ELSE str)

DecimalOf(str) == RadixVal(str, 10)

SignedDecimalOf(str) ==
  IF str[1] = "-" THEN 0 - RadixVal(Tail(str), 10) ELSE RadixVal(str, 10)

PartNames == {"params", "query", "body"}

\* The outcome of each part of each request the model issues.
PartsOfRequest ==
  [in \in Requests |->
     [params |-> Part(createJokesRoutes(in.op).params, in.params),
      query |-> Part(createJokesRoutes(in.op).query, in.query),
      body |-> Part(createJokesRoutes(in.op).body, in.body)]]

PartsOf(r) == PartsOfRequest[RequestOf(r)]

FailingIn(parts) == {p \in PartNames : parts[p].declared /\ ~parts[p].result.success}

FailingParts(r) == FailingIn(PartsOf(r))

Validated(r) == variant = "validated" /\ r.pc \notin {"idle", "validate"}

IsValidationFailure(resp) ==
  /\ resp.status = 400
  /\ DOMAIN resp.body = {"error", "details"}
  /\ resp.body.error = "Validation failed"

\* The text of a create body is absent, null, not a string or empty.
BadText(body) ==
  body.kind # "object" \/ body.text.t # "string" \/ body.text.s = <<>>

Handled(r) == r.pc \notin {"idle", "validate", "handler"}

(***************************************************************************)
(* C1.  The error translator is total: whatever value a storage call       *)
(* throws, the request gets exactly one response, and that response is     *)
(* the status and body of exactly one row of the storage-failure table.    *)
(***************************************************************************)
ErrorTranslatorTotal ==
  \A s \in Slots :
    WasTranslated(req[s]) =>
      /\ req[s].pc = "done"
      /\ Len(req[s].responses) = 1
      /\ Cardinality({i \in DOMAIN MappingTable :
                        RowMatches(MappingTable[i], req[s].responses[1])}) = 1

\* A thrown null has been answered with the last row of the table.
NullThrownAnswered ==
  \E s \in Slots :
    /\ WasTranslated(req[s])
    /\ req[s].thrown[1].cls = "null"
    /\ RowMatches(MappingTable[8], req[s].responses[1])

(***************************************************************************)
(* C2.  The translator maps each failure category to the status and body   *)
(* the table gives: P2002 to 409 with code and field = the target columns, *)
(* P2025 to 404, P2003 and P2014 to 400, any other known-request code to   *)
(* 400 with code and message, a validation error to 400 with message, an   *)
(* initialization error to 503, anything else to 500; only the P2002       *)
(* answer has a field key.                                                 *)
(***************************************************************************)
ExpectedTranslation(e) ==
  IF IsKnown(e, "P2002")
  THEN Reply(409, [error |-> "A record with this value already exists",
                   code |-> "P2002", field |-> e.target])
  ELSE IF IsKnown(e, "P2025")
  THEN Reply(404, [error |-> "Record not found", code |-> "P2025"])
  ELSE IF IsKnown(e, "P2003")
  THEN Reply(400, [error |-> "Related record not found", code |-> "P2003"])
  ELSE IF IsKnown(e, "P2014")
  THEN Reply(400, [error |-> "Required relation violation", code |-> "P2014"])
  ELSE IF e.cls = "PrismaClientKnownRequestError"
  THEN Reply(400, [error |-> "Database request error", code |-> e.code,
                   message |-> e.message])
  ELSE IF e.cls = "PrismaClientValidationError"
  THEN Reply(400, [error |-> "Invalid data provided", message |-> e.message])
  ELSE IF e.cls = "PrismaClientInitializationError"
  THEN Reply(503, [error |-> "Database connection error"])
  ELSE Reply(500, [error |-> "Internal server error"])

ErrorMappingTable ==
  \A s \in Slots :
    WasTranslated(req[s]) =>
      /\ req[s].responses = << ExpectedTranslation(req[s].thrown[1]) >>
      /\ ("field" \in DOMAIN req[s].responses[1].body)
           <=> IsKnown(req[s].thrown[1], "P2002")

\* A unique-constraint failure of a create has been answered with 409 and
\* the violating columns.
UniqueViolationAnswered ==
  \E s \in Slots :
    /\ WasTranslated(req[s])
    /\ req[s].op = "create"
    /\ IsKnown(req[s].thrown[1], "P2002")
    /\ req[s].responses[1].status = 409
    /\ req[s].responses[1].body.field = Some(<<"text">>)

(***************************************************************************)
(* C3.  When validate is given schemas for several parts and some fail,    *)
(* the one 400 "Validation failed" response lists the violations of every  *)
(* failing part: one {field, message} entry per issue and no other entry,  *)
(* field being the dotted path of the issue, or "unknown" for an empty     *)
(* path.                                                                   *)
(***************************************************************************)
EntryOf(issue) ==
  [field |-> IF issue.path = <<>> THEN "unknown" ELSE JoinPath(issue.path),
   message |-> issue.message]

Listed(details, parts, p) ==
  \A i \in DOMAIN parts[p].result.issues :
    \E j \in DOMAIN details : details[j] = EntryOf(parts[p].result.issues[i])

IssueCount(parts, failing) ==
  (IF "params" \in failing THEN Len(parts.params.result.issues) ELSE 0)
    + (IF "query" \in failing THEN Len(parts.query.result.issues) ELSE 0)
    + (IF "body" \in failing THEN Len(parts.body.result.issues) ELSE 0)

AllListed(r, parts, failing) ==
  /\ Len(r.responses) = 1
  /\ IsValidationFailure(r.responses[1])
  /\ \A p \in failing : Listed(r.responses[1].body.details, parts, p)
  /\ Len(r.responses[1].body.details) = IssueCount(parts, failing)

ListedWhenFailing(r, parts, failing) ==
  failing # {} => AllListed(r, parts, failing)

AllViolationsListed ==
  \A s \in Slots :
    Validated(req[s]) =>
      ListedWhenFailing(req[s], PartsOf(req[s]), FailingParts(req[s]))

\* A request with three failing parts, one of them failing at the root, has
\* been answered.
SeveralPartsFailed ==
  \E s \in Slots :
    /\ Validated(req[s])
    /\ FailingParts(req[s]) = PartNames
    /\ \E j \in DOMAIN req[s].responses[1].body.details :
         req[s].responses[1].body.details[j].field = "unknown"
    /\ \E j \in DOMAIN req[s].responses[1].body.details :
         req[s].responses[1].body.details[j].field = "id"

(***************************************************************************)
(* C4.  In the validated routes validation is decided before any storage   *)
(* access: next() is called exactly when no declared part fails; when a    *)
(* part fails the request is answered 400, the handler never runs and no   *)
(* storage call is made.                                                   *)
(***************************************************************************)
Rejected(r) ==
  /\ r.pc = "done"
  /\ ~r.nextCalled
  /\ r.calls = <<>>
  /\ r.pending = {}
  /\ r.seen = <<>>
  /\ Len(r.responses) = 1
  /\ IsValidationFailure(r.responses[1])

ValidationBeforeStorage ==
  \A s \in Slots :
    /\ (variant = "validated" /\ req[s].pc = "validate") =>
         (req[s].calls = <<>> /\ ~req[s].nextCalled)
    /\ Validated(req[s]) =>
         /\ req[s].nextCalled <=> FailingParts(req[s]) = {}
         /\ ~req[s].nextCalled => Rejected(req[s])
         /\ req[s].calls # <<>> => req[s].nextCalled

\* A list request with an invalid limit has been rejected.
InvalidQueryRejected ==
  \E s \in Slots :
    /\ Validated(req[s])
    /\ req[s].op = "getAll"
    /\ req[s].query.limit = Some(<<"1", "0", "1">>)
    /\ Rejected(req[s])

(***************************************************************************)
(* C5.  Get-by-id with an id of decimal digits makes exactly one lookup,   *)
(* by identifier equality; unless the lookup throws, the answer is 200     *)
(* with the record of that id if the store held one at the lookup, and     *)
(* 404 {"error": "Joke not found"} if it held none.                        *)
(***************************************************************************)
HeldAt(len, id) == {i \in 1..len : store[i].id = id}

LookupAnswer(r, id, held) ==
  /\ r.calls = << Call("findUnique", [id |-> id]) >>
  /\ Len(r.seen) = 1
  /\ IF held = {}
     THEN r.responses = << Reply(404, [error |-> "Joke not found"]) >>
     ELSE \E i \in held : r.responses = << Reply(200, store[i]) >>

GetByIdLooksUp ==
  \A s \in Slots :
    /\ req[s].op = "getById" => Len(req[s].calls) <= 1
    /\ (/\ req[s].op = "getById" /\ req[s].pc = "done"
        /\ req[s].thrown = <<>> /\ IsDecimal(req[s].params.id)) =>
         /\ req[s].seen # <<>>
         /\ LookupAnswer(req[s], DecimalOf(req[s].params.id),
                         HeldAt(req[s].seen[1].len, DecimalOf(req[s].params.id)))

\* The second of two records has been fetched.
JokeFound ==
  \E s \in Slots :
    /\ req[s].op = "getById" /\ req[s].pc = "done"
    /\ req[s].params.id = <<"2">>
    /\ Len(store) = 2
    /\ req[s].responses = << Reply(200, store[2]) >>

(***************************************************************************)
(* C6.  Get-by-id with a path id that is not an integer literal (an        *)
(* optional sign, then decimal digits only) is answered 400 and no         *)
(* storage lookup is made, in the schema variant and in the inline ones.   *)
(***************************************************************************)
IsIntegerLiteral(str) ==
  str # <<>> /\ IsDecimal(IF str[1] \in {"-", "+"} THEN Tail(str) ELSE str)

AnsweredBadRequest(r) ==
  /\ r.pc = "done"
  /\ r.calls = <<>>
  /\ Len(r.responses) = 1
  /\ r.responses[1].status = 400

NonIntegerIdRejected ==
  \A s \in Slots :
    (/\ req[s].op = "getById" /\ Handled(req[s])
     /\ ~IsIntegerLiteral(req[s].params.id)) =>
      AnsweredBadRequest(req[s])

(***************************************************************************)
(* C7.  Validation accepts a path id exactly when it is an optional        *)
(* leading minus sign followed by decimal digits only; the lookup is then  *)
(* made with its numeric value ("-1" gives id -1, "0" gives id 0), and     *)
(* every other id is rejected.                                             *)
(***************************************************************************)
SignedIdAccepted ==
  \A s \in Slots :
    (Validated(req[s]) /\ req[s].op = "getById" /\ Handled(req[s])) =>
      IF IsSignedDecimal(req[s].params.id)
      THEN /\ req[s].nextCalled
           /\ req[s].calls =
                << Call("findUnique", [id |-> SignedDecimalOf(req[s].params.id)]) >>
      ELSE Rejected(req[s])

(***************************************************************************)
(* C8.  A create request whose text is empty, missing, null or not a       *)
(* string is answered 400, storage create is never called for it, and the  *)
(* store stays as it was while the request is served.                      *)
(***************************************************************************)
BadCreate(r) == r.op = "create" /\ BadText(r.body)

BadTextAnswered ==
  \A s \in Slots :
    /\ BadCreate(req[s]) => (req[s].calls = <<>> /\ req[s].pending = {})
    /\ (BadCreate(req[s]) /\ Handled(req[s])) => AnsweredBadRequest(req[s])

BadTextNotPersisted ==
  [](BadTextAnswered) /\ [][(\E s \in Slots : BadCreate(req[s])) => store' = store]_vars

\* An empty text has been refused by the inline check while the store holds
\* a record.
EmptyTextRefused ==
  \E s \in Slots :
    /\ variant = "inlineController"
    /\ req[s].op = "create" /\ req[s].pc = "done"
    /\ req[s].body.text = JSString(<<>>)
    /\ store # <<>>
    /\ req[s].responses = << Reply(400, [error |-> "Missing required field: text"]) >>

(***************************************************************************)
(* C9.  Round trip: once a create with text X and no author has            *)
(* succeeded, a get-by-id with the id that create returned answers 200     *)
(* with a record whose text is X and whose author is null, whatever        *)
(* creates and reads happened in between.                                  *)
(***************************************************************************)
NoAuthor(body) ==
  body.kind = "object" /\ body.text.t = "string" /\ body.author.t = "undefined"

Fetches(r, entry) ==
  /\ r.op = "getById" /\ r.pc = "done" /\ r.thrown = <<>>
  /\ IsDecimal(r.params.id)
  /\ DecimalOf(r.params.id) = entry.answer.id

RoundTripOf(r, entry) ==
  /\ Len(r.responses) = 1
  /\ r.responses[1].status = 200
  /\ r.responses[1].body.id = entry.answer.id
  /\ r.responses[1].body.text = entry.body.text.s
  /\ r.responses[1].body.author = JSNull

CreateThenGet ==
  \A s \in Slots : \A i \in DOMAIN createLog :
    (NoAuthor(createLog[i].body) /\ Fetches(req[s], createLog[i])) =>
      RoundTripOf(req[s], createLog[i])

\* The first of two created records has been fetched after the second create.
FirstFetchedAfterSecond ==
  \E s \in Slots :
    /\ Len(createLog) = 2
    /\ NoAuthor(createLog[1].body)
    /\ createLog[2].body.author.t = "string"
    /\ Fetches(req[s], createLog[1])
    /\ req[s].seen[1].len = 2

(***************************************************************************)
(* C10.  A create request with a non-empty string text and an author that  *)
(* is absent or a string makes exactly one storage insert carrying that    *)
(* text and author; unless the insert throws, exactly one record is added  *)
(* to the store, with an id no earlier record has and a createdAt, and     *)
(* the answer is 201 with that record.                                     *)
(***************************************************************************)
ValidCreate(r) ==
  /\ r.op = "create" /\ ~BadText(r.body)
  /\ r.body.author.t \in {"undefined", "string"}

InsertOf(body) ==
  Call("create", [data |-> [text |-> body.text.s, author |-> body.author]])

Inserted(r, before, row) ==
  /\ r.responses = << Reply(201, row) >>
  /\ row.text = r.body.text.s
  /\ row.author = (IF r.body.author.t = "string" THEN r.body.author ELSE JSNull)
  /\ DOMAIN row = {"id", "text", "author", "createdAt"}
  /\ \A i \in 1..before : store[i].id # row.id

CreateAnswered ==
  \A s \in Slots :
    ValidCreate(req[s]) =>
      /\ Handled(req[s]) => req[s].calls = << InsertOf(req[s].body) >>
      /\ (req[s].pc = "done" /\ req[s].thrown = <<>>) =>
           /\ Len(req[s].seen) = 1
           /\ Len(store) > req[s].seen[1].len
           /\ Inserted(req[s], req[s].seen[1].len, store[req[s].seen[1].len + 1])

CreateInsertsOnce ==
  [](CreateAnswered)
    /\ [][store' # store =>
            /\ Len(store') = Len(store) + 1
            /\ SubSeq(store', 1, Len(store)) = store
            /\ \E s \in Slots : ValidCreate(req[s]) /\ req[s].pc = "await"
                                  /\ req'[s].pc = "done"]_vars

\* A joke with an author has been created after another one.
SecondJokeCreated ==
  \E s \in Slots :
    /\ ValidCreate(req[s]) /\ req[s].pc = "done"
    /\ req[s].body.author.t = "string"
    /\ Len(store) = 2
    /\ req[s].responses = << Reply(201, store[2]) >>

(***************************************************************************)
(* C11.  A List request with page >= 1 and limit in 1..100 is answered     *)
(* with pagination.totalPages = ceil(total / limit) (0 when total is 0),   *)
(* with the normalized page and limit echoed, and with at most limit       *)
(* records in data.                                                        *)
(***************************************************************************)
NormalPage(q) == IF q.page = None THEN 1 ELSE DecimalOf(q.page[1])

NormalLimit(q) == IF q.limit = None THEN 10 ELSE DecimalOf(q.limit[1])

\* The least n with n * limit >= total.
CeilOf(total, limit) ==
  CHOOSE n \in 0..total : \A m \in 0..total : m * limit >= total <=> m >= n

ListAnswered(r) ==
  /\ variant = "validated" /\ r.op = "getAll"
  /\ r.pc = "done" /\ r.nextCalled /\ r.thrown = <<>>

PageAnswer(r, page, limit, body) ==
  /\ DOMAIN body = {"data", "pagination"}
  /\ body.pagination =
       [page |-> page, limit |-> limit, total |-> r.total[1],
        totalPages |-> CeilOf(r.total[1], limit)]
  /\ Len(body.data) <= limit

PaginationComputed ==
  \A s \in Slots :
    ListAnswered(req[s]) =>
      /\ Len(req[s].responses) = 1
      /\ req[s].responses[1].status = 200
      /\ PageAnswer(req[s], NormalPage(req[s].query), NormalLimit(req[s].query),
                    req[s].responses[1].body)

\* The second page of one record each has been served out of two records.
SecondPageServed ==
  \E s \in Slots :
    /\ ListAnswered(req[s])
    /\ req[s].query.page = Some(<<"2">>) /\ req[s].query.limit = Some(<<"1">>)
    /\ req[s].responses[1].body.pagination.totalPages = 2
    /\ Len(req[s].responses[1].body.data) = 1

(***************************************************************************)
(* C12.  Behind the query validation the List handler sees a page that is  *)
(* an integer >= 1 and a limit that is an integer in 1..100; page = 0,     *)
(* limit = 0, limit > 100 and values that are not digits are answered      *)
(* 400, so the offset is never negative and limit is never 0.              *)
(***************************************************************************)
BadPage(value) ==
  value # None /\ (~IsDecimal(value[1]) \/ DecimalOf(value[1]) < 1)

BadLimit(value) ==
  value # None /\ (~IsDecimal(value[1]) \/ DecimalOf(value[1]) < 1
                     \/ DecimalOf(value[1]) > 100)

BadPaging(q) == BadPage(q.page) \/ BadLimit(q.limit)

PagingOf(v) ==
  /\ v.page \in Nat /\ v.page >= 1
  /\ v.limit \in Nat /\ v.limit >= 1 /\ v.limit <= 100

OffsetsOf(calls) ==
  \A i \in DOMAIN calls :
    calls[i].fn = "findMany" => (calls[i].args.skip[1] >= 0 /\ calls[i].args.take[1] >= 1)

PagingInRange ==
  \A s \in Slots :
    (Validated(req[s]) /\ req[s].op = "getAll") =>
      /\ BadPaging(req[s].query) => Rejected(req[s])
      /\ req[s].nextCalled =>
           (req[s].validatedQuery # None /\ PagingOf(req[s].validatedQuery[1]))
      /\ OffsetsOf(req[s].calls)

\* A List request with page = 0 has been rejected.
PageZeroRejected ==
  \E s \in Slots :
    /\ Validated(req[s]) /\ req[s].op = "getAll"
    /\ req[s].query.page = Some(<<"0">>)
    /\ Rejected(req[s])
    /\ req[s].responses[1].body.details =
         << [field |-> "page", message |-> "page must be at least 1"] >>

(***************************************************************************)
(* C13.  Query normalization fills in what is absent: page 1, limit 10,    *)
(* sortBy id, sortOrder desc; author and search stay absent; a sortBy      *)
(* outside {id, createdAt, text} or a sortOrder outside {asc, desc} is     *)
(* answered 400.                                                           *)
(***************************************************************************)
ExpectedQuery(q) ==
  [page |-> NormalPage(q), limit |-> NormalLimit(q),
   author |-> q.author, search |-> q.search,
   sortBy |-> IF q.sortBy = None THEN "id" ELSE q.sortBy[1],
   sortOrder |-> IF q.sortOrder = None THEN "desc" ELSE q.sortOrder[1]]

BadSort(q) ==
  \/ q.sortBy # None /\ q.sortBy[1] \notin {"id", "createdAt", "text"}
  \/ q.sortOrder # None /\ q.sortOrder[1] \notin {"asc", "desc"}

DefaultsApplied ==
  \A s \in Slots :
    (Validated(req[s]) /\ req[s].op = "getAll") =>
      /\ BadSort(req[s].query) => Rejected(req[s])
      /\ req[s].nextCalled =>
           req[s].validatedQuery = Some(ExpectedQuery(req[s].query))

\* A List request without any parameter has reached the handler.
BareListNormalized ==
  \E s \in Slots :
    /\ Validated(req[s]) /\ req[s].op = "getAll" /\ req[s].nextCalled
    /\ req[s].query = NoQuery
    /\ req[s].validatedQuery =
         Some([page |-> 1, limit |-> 10, author |-> None, search |-> None,
               sortBy |-> "id", sortOrder |-> "desc"])

(***************************************************************************)
(* C14.  List filtering: with author present only records whose author     *)
(* contains it are eligible, with search present only records whose text   *)
(* contains it, with both present both conditions apply, with neither      *)
(* every record is eligible; the page fetch and the count use the same     *)
(* filter.                                                                 *)
(***************************************************************************)
Eligible(row, author, search) ==
  /\ author = None \/ (row.author.t = "string" /\ Contains(row.author.s, author[1]))
  /\ search = None \/ Contains(row.text, search[1])

EligibleIn(len, author, search) ==
  Cardinality({i \in 1..len : Eligible(store[i], author, search)})

SeenLen(r, fn) == r.seen[CHOOSE i \in DOMAIN r.seen : r.seen[i].fn = fn].len

Shown(data, eligible, skip, limit) ==
  Len(data) = IF eligible <= skip THEN 0
              ELSE IF eligible - skip < limit THEN eligible - skip
              ELSE limit

Filtered(r, body, v, author, search) ==
  /\ \A i \in DOMAIN body.data : Eligible(body.data[i], author, search)
  /\ Shown(body.data, EligibleIn(SeenLen(r, "findMany"), author, search),
           (v.page - 1) * v.limit, v.limit)
  /\ body.pagination.total = EligibleIn(SeenLen(r, "count"), author, search)
  /\ Len(r.calls) = 2
  /\ r.calls[1].args.where = r.calls[2].args.where

\* The claim as stated: a parameter that is present filters.
PresentFilters ==
  \A s \in Slots :
    ListAnswered(req[s]) =>
      Filtered(req[s], req[s].responses[1].body, req[s].validatedQuery[1],
               req[s].query.author, req[s].query.search)

\* As amended: a parameter that is present and not empty filters.
Given(value) == IF value # None /\ value[1] # <<>> THEN value ELSE None

NonEmptyFilters ==
  \A s \in Slots :
    ListAnswered(req[s]) =>
      Filtered(req[s], req[s].responses[1].body, req[s].validatedQuery[1],
               Given(req[s].query.author), Given(req[s].query.search))

\* Author and search together have selected one of two records.
BothFiltersApplied ==
  \E s \in Slots :
    /\ ListAnswered(req[s])
    /\ req[s].query.author = Some(<<"x">>) /\ req[s].query.search = Some(<<"b">>)
    /\ req[s].query.limit = None
    /\ Len(store) = 2
    /\ store[1].author.t = "string" /\ store[2].author.t = "string"
    /\ Len(req[s].responses[1].body.data) = 1

(***************************************************************************)
(* C15.  List returns its records ordered by the requested sortBy field    *)
(* in the requested sortOrder direction (sortBy = createdAt with           *)
(* sortOrder = asc gives non-decreasing createdAt), and by id descending   *)
(* when no sort parameter is given; the lists of the inline variants are   *)
(* by id descending.                                                       *)
(***************************************************************************)
NotAfter(a, b, field) ==
  CASE field = "id" -> a.id <= b.id
    [] field = "createdAt" -> a.createdAt <= b.createdAt
    [] field = "text" -> TextLeq(a.text, b.text)

Sorted(data, field, direction) ==
  \A j, k \in DOMAIN data :
    j < k => IF direction = "asc" THEN NotAfter(data[j], data[k], field)
             ELSE NotAfter(data[k], data[j], field)

InlineListAnswered(r) ==
  /\ variant # "validated" /\ r.op = "getAll"
  /\ r.pc = "done" /\ r.thrown = <<>>

ListOrdered ==
  \A s \in Slots :
    /\ ListAnswered(req[s]) =>
         Sorted(req[s].responses[1].body.data,
                ExpectedQuery(req[s].query).sortBy, ExpectedQuery(req[s].query).sortOrder)
    /\ InlineListAnswered(req[s]) =>
         /\ Len(req[s].responses[1].body) = SeenLen(req[s], "findMany")
         /\ Sorted(req[s].responses[1].body, "id", "desc")

\* Two records have been listed by text ascending, against their id order.
ListedByText ==
  \E s \in Slots :
    /\ ListAnswered(req[s])
    /\ req[s].query.sortBy = Some("text") /\ req[s].query.sortOrder = Some("asc")
    /\ Len(req[s].responses[1].body.data) = 2
    /\ req[s].responses[1].body.data[1].id > req[s].responses[1].body.data[2].id
    /\ req[s].responses[1].body.data[1].text # req[s].responses[1].body.data[2].text

(***************************************************************************)
(* C16.  After any sequence of requests the ids of the persisted records   *)
(* are pairwise distinct and increase strictly in creation order, and a    *)
(* persisted record is never changed or removed: the only step that        *)
(* alters the store is a successful create, which appends one record.      *)
(***************************************************************************)
IdsIncrease == \A i, j \in DOMAIN store : i < j => store[i].id < store[j].id

CreateSucceeds(s) ==
  /\ req[s].op = "create" /\ "create" \in req[s].pending
  /\ req'[s].pc = "done"
  /\ req'[s].responses = << Reply(201, store'[Len(store')]) >>

Appended ==
  /\ Len(store') = Len(store) + 1
  /\ \A i \in DOMAIN store : store'[i] = store[i]
  /\ \E s \in Slots : CreateSucceeds(s)

StoreOnlyGrows == [](IdsIncrease) /\ [][store' # store => Appended]_vars

\* Two records are persisted and a read has been served after them.
TwoPersistedThenRead ==
  \E s \in Slots :
    /\ Len(store) = 2 /\ store[1].id # store[2].id
    /\ req[s].op = "getAll" /\ req[s].pc = "done" /\ req[s].thrown = <<>>
    /\ SeenLen(req[s], "findMany") = 2

(***************************************************************************)
(* C17.  Every persisted record has a non-empty text: no create request    *)
(* makes the API insert an empty text, behind the schema or behind the     *)
(* inline check.                                                           *)
(***************************************************************************)
TextNeverEmpty ==
  /\ \A i \in DOMAIN store : store[i].text # <<>>
  /\ \A s \in Slots : \A i \in DOMAIN req[s].calls :
       req[s].calls[i].fn = "create" => req[s].calls[i].args.data.text # <<>>

\* The schema has refused an empty text while a record is persisted.
EmptyTextFailsSchema ==
  \E s \in Slots :
    /\ Validated(req[s]) /\ req[s].op = "create"
    /\ req[s].body.text = JSString(<<>>)
    /\ store # <<>>
    /\ Rejected(req[s])
    /\ req[s].responses[1].body.details =
         << [field |-> "text", message |-> "text cannot be empty"] >>

(***************************************************************************)
(* C18.  A response of the error translator (a row of the storage-failure  *)
(* table) is sent only after the handler attempted a storage call in the   *)
(* same request, and that call failed: no request gets such a response     *)
(* without a storage call.                                                 *)
(***************************************************************************)
IsTranslation(resp) ==
  \E i \in DOMAIN MappingTable : RowMatches(MappingTable[i], resp)

TranslationAfterCall ==
  \A s \in Slots :
    /\ \A i \in DOMAIN req[s].responses :
         IsTranslation(req[s].responses[i]) =>
           (req[s].calls # <<>> /\ req[s].seen # <<>> /\ req[s].thrown # <<>>)
    /\ req[s].logs # <<>> => req[s].calls # <<>>

\* A List whose count failed to connect has been answered 503.
CountFailureAnswered ==
  \E s \in Slots :
    /\ variant = "validated" /\ req[s].op = "getAll" /\ req[s].pc = "done"
    /\ Len(req[s].calls) = 2
    /\ req[s].seen # <<>> /\ req[s].seen[1].fn = "count"
    /\ req[s].responses = << Reply(503, [error |-> "Database connection error"]) >>

(***************************************************************************)
(* C19.  There are no retries: within one request get-by-id calls          *)
(* findUnique at most once, create calls the insert at most once, List     *)
(* calls findMany once and count once; a failed call is never issued       *)
(* again and the failure is answered exactly once.                         *)
(***************************************************************************)
CallsOf(r, fn) == Cardinality({i \in DOMAIN r.calls : r.calls[i].fn = fn})

FunctionsOf(op) ==
  CASE op = "getById" -> {"findUnique"}
    [] op = "create" -> {"create"}
    [] op = "getAll" -> IF variant = "validated" THEN {"findMany", "count"}
                        ELSE {"findMany"}
    [] OTHER -> {}

CalledOnce(r) ==
  /\ \A i \in DOMAIN r.calls : r.calls[i].fn \in FunctionsOf(r.op)
  /\ \A fn \in FunctionsOf(r.op) : CallsOf(r, fn) <= 1
  /\ (r.op = "getAll" /\ Handled(r) /\ (r.nextCalled \/ variant # "validated")) =>
       \A fn \in FunctionsOf(r.op) : CallsOf(r, fn) = 1

FailureAnsweredOnce(r) ==
  /\ Len(r.thrown) <= 1
  /\ Len(r.responses) <= 1
  /\ WasTranslated(r) =>
       (r.pc = "done" /\ r.responses = << ExpectedTranslation(r.thrown[1]) >>)

NoRetries ==
  \A s \in Slots : CalledOnce(req[s]) /\ FailureAnsweredOnce(req[s])

\* The page fetch of a List failed and the count resolved afterwards.
FetchFailedCountDropped ==
  \E s \in Slots :
    /\ variant = "validated" /\ req[s].op = "getAll" /\ req[s].pc = "done"
    /\ req[s].thrown # <<>>
    /\ Len(req[s].seen) = 2
    /\ req[s].seen[1].fn = "findMany" /\ req[s].seen[2].fn = "count"
    /\ req[s].total # None
    /\ Len(req[s].responses) = 1

(***************************************************************************)
(* C20.  The translator logs exactly for the 5xx outcomes: one entry when  *)
(* it answers 503 (initialization failure) or 500 (anything else), none    *)
(* when it answers 409, 404 or 400; the 503 and 500 bodies hold the error  *)
(* key only, nothing of the underlying failure.                            *)
(***************************************************************************)
Logged(r, resp) ==
  /\ r.logs # <<>> <=> resp.status \in {500, 503}
  /\ resp.status \in {500, 503} \/ resp.status \in {409, 404, 400}
  /\ resp.status = 503 <=> r.thrown[1].cls = "PrismaClientInitializationError"
  /\ resp.status \in {500, 503} =>
       /\ DOMAIN resp.body = {"error"}
       /\ Len(r.logs) = 1
       /\ r.logs[1].error = r.thrown[1]

LoggedExactlyFor5xx ==
  \A s \in Slots :
    IF WasTranslated(req[s]) THEN Logged(req[s], req[s].responses[1])
    ELSE req[s].logs = <<>>

\* An initialization failure of a lookup has been answered 503 and logged.
ConnectionFailureLogged ==
  \E s \in Slots :
    /\ req[s].op = "getById" /\ WasTranslated(req[s])
    /\ req[s].responses[1].status = 503
    /\ req[s].logs = << [label |-> "Database connection error:",
                         error |-> req[s].thrown[1]] >>

(***************************************************************************)
(* C21.  In every variant each of the three operations catches what its    *)
(* storage call throws and answers it through the error translator: a      *)
(* storage exception never leaves the handler untranslated.                *)
(***************************************************************************)
StorageFailureTranslated ==
  \A s \in Slots :
    /\ req[s].pc # "escaped"
    /\ req[s].thrown # <<>> =>
         (Len(req[s].responses) = 1 /\ IsTranslation(req[s].responses[1]))

(***************************************************************************)
(* C22.  The service is stateless between requests: two requests with the  *)
(* same content whose storage calls saw the same store contents and the    *)
(* same failures get the same response, whatever was served before on      *)
(* either side.                                                            *)
(***************************************************************************)
SameRequest(a, b) ==
  /\ a.op = b.op /\ a.params = b.params
  /\ a.query = b.query /\ a.body = b.body

SeenSet(r) == {r.seen[i] : i \in DOMAIN r.seen}

SameView(a, b) == SeenSet(a) = SeenSet(b) /\ a.thrown = b.thrown

BothIssued(r) ==
  /\ Len(r.calls) = 2
  /\ r.calls[1].fn = "findMany" /\ r.calls[2].fn = "count"
  /\ r.seen = <<>> => r.pending = {"findMany", "count"}

EachReadItsOwn(r, body, v) ==
  /\ SeenSet(r) = {[fn |-> "findMany", len |-> SeenLen(r, "findMany")],
                   [fn |-> "count", len |-> SeenLen(r, "count")]}
  /\ body.data = r.jokes[1]
  /\ body.pagination.total = r.total[1]
  /\ r.total[1] = EligibleIn(SeenLen(r, "count"), Given(v.author), Given(v.search))
  /\ Shown(r.jokes[1],
           EligibleIn(SeenLen(r, "findMany"), Given(v.author), Given(v.search)),
           (v.page - 1) * v.limit, v.limit)

ReadsIndependent ==
  \A s \in Slots :
    /\ (req[s].op = "getAll" /\ req[s].nextCalled /\ Handled(req[s])) =>
         BothIssued(req[s])
    /\ ListAnswered(req[s]) =>
         EachReadItsOwn(req[s], req[s].responses[1].body, req[s].validatedQuery[1])

\* The count completed before the page fetch, and two records were counted
\* while the page holds one.
CountCompletedFirst ==
  \E s \in Slots :
    /\ ListAnswered(req[s])
    /\ req[s].seen[1].fn = "count" /\ req[s].seen[2].fn = "findMany"
    /\ req[s].total = Some(2)
    /\ Len(req[s].jokes[1]) = 1

(***************************************************************************)
(* C24.  The validation middleware attaches the normalized value of every  *)
(* declared part that passes, also when another part fails; a failing part *)
(* has nothing attached and a part without a schema is left untouched.     *)
(***************************************************************************)
AttachedTo(r) ==
  [params |-> r.validatedParams, query |-> r.validatedQuery, body |-> r.validatedBody]

AttachedPerPart(attached, parts) ==
  \A p \in PartNames :
    /\ (parts[p].declared /\ parts[p].result.success) =>
         (attached[p] # None /\ attached[p] = parts[p].result.data)
    /\ (parts[p].declared /\ ~parts[p].result.success) => attached[p] = None
    /\ ~parts[p].declared => attached[p] = None

PassingPartsAttached ==
  \A s \in Serial :
    Validated(req[s]) => AttachedPerPart(AttachedTo(req[s]), PartsOf(req[s]))

\* The params fail while the query and the body pass and are attached.
AttachedBesideFailure ==
  /\ Validated(req[1]) /\ req[1].op = "combined"
  /\ FailingParts(req[1]) = {"params"}
  /\ req[1].validatedParams = None
  /\ req[1].validatedQuery = Some(ExpectedQuery(req[1].query))
  /\ req[1].validatedBody # None /\ req[1].validatedBody[1].text = JSString(<<"a">>)
  /\ Len(req[1].responses) = 1 /\ req[1].responses[1].status = 400

(***************************************************************************)
(* C25.  List asks the page fetch for offset (page - 1) * limit and take   *)
(* limit of the filtered, sorted sequence, and asks the count with the     *)
(* same filter and no ordering, offset or take: the total is the number of *)
(* matching records whatever page, limit, sortBy and sortOrder are.        *)
(***************************************************************************)
PageFetchArgs(args, v) ==
  /\ DOMAIN args = {"where", "sortBy", "sortOrder", "skip", "take"}
  /\ args.skip = Some((v.page - 1) * v.limit)
  /\ args.take = Some(v.limit)
  /\ args.sortBy = v.sortBy /\ args.sortOrder = v.sortOrder
  /\ args.where = [author |-> Given(v.author), text |-> Given(v.search)]

CountArgs(args, v) ==
  /\ DOMAIN args = {"where"}
  /\ args.where = [author |-> Given(v.author), text |-> Given(v.search)]

ListReadsAsked(r, v) ==
  /\ Len(r.calls) = 2
  /\ r.calls[1].fn = "findMany" /\ PageFetchArgs(r.calls[1].args, v)
  /\ r.calls[2].fn = "count" /\ CountArgs(r.calls[2].args, v)
  /\ r.total # None =>
       r.total[1] = EligibleIn(SeenLen(r, "count"), Given(v.author), Given(v.search))

PageFetchAndCount ==
  \A s \in Serial :
    (variant = "validated" /\ req[s].op = "getAll" /\ req[s].nextCalled
       /\ Handled(req[s])) =>
      ListReadsAsked(req[s], ExpectedQuery(req[s].query))

\* Page 2 with limit 1 of two records: offset 1, take 1, total 2.
SecondPageAsked ==
  /\ ListAnswered(req[1])
  /\ req[1].calls[1].args.skip = Some(1) /\ req[1].calls[1].args.take = Some(1)
  /\ req[1].total = Some(2)
  /\ Len(req[1].responses[1].body.data) = 1

(***************************************************************************)
(* C26.  Every List response is consistent with its own total, also when   *)
(* creates of other requests come between the page fetch and the count:    *)
(* (page - 1) * limit plus the number of records in data is at most        *)
(* pagination.total.                                                       *)
(***************************************************************************)
WithinTotal(body) ==
  (body.pagination.page - 1) * body.pagination.limit + Len(body.data)
    <= body.pagination.total

CreatedBetween(r) ==
  IF SeenLen(r, "findMany") > SeenLen(r, "count")
  THEN SeenLen(r, "findMany") - SeenLen(r, "count")
  ELSE 0

WithinTotalAndCreated(r, body) ==
  Len(body.data) > 0 =>
    (body.pagination.page - 1) * body.pagination.limit + Len(body.data)
      <= body.pagination.total + CreatedBetween(r)

ReadFailed(r) ==
  /\ r.op = "getAll" /\ r.nextCalled
  /\ \E i \in DOMAIN r.seen :
       \/ r.seen[i].fn = "findMany" /\ r.jokes = None
       \/ r.seen[i].fn = "count" /\ r.total = None

OneErrorResponse(r) ==
  /\ Len(r.responses) = 1
  /\ r.responses[1].status >= 400
  /\ "data" \notin DOMAIN r.responses[1].body
  /\ "error" \in DOMAIN r.responses[1].body

AtMostOneResponse ==
  \A s \in Slots :
    /\ Len(req[s].responses) <= 1
    /\ req[s].pc = "done" => Len(req[s].responses) = 1
    /\ ReadFailed(req[s]) => OneErrorResponse(req[s])

\* Both reads of one List have failed.
BothReadsFailed ==
  \E s \in Slots :
    /\ req[s].op = "getAll" /\ req[s].pc = "done"
    /\ Len(req[s].seen) = 2 /\ req[s].pending = {}
    /\ req[s].jokes = None /\ req[s].total = None
    /\ OneErrorResponse(req[s])

(***************************************************************************)
(* C28.  Every request eventually receives a response, provided each       *)
(* storage call it issues eventually resolves or rejects.                  *)
(***************************************************************************)
InService(r) == r.pc \in {"validate", "handler", "await"}

Answered(r) == r.pc = "done" /\ Len(r.responses) = 1

EventuallyAnswered ==
  \A s \in Slots : InService(req[s]) ~> Answered(req[s])

\* A List has been answered after both of its reads were awaited.
AnsweredAfterBothReads ==
  \E s \in Slots :
    /\ Answered(req[s]) /\ req[s].op = "getAll"
    /\ req[s].pending = {} /\ Len(req[s].seen) = 2
    /\ req[s].responses[1].status = 200

(***************************************************************************)
(* C29.  List, get-by-id, every request rejected by validation and every   *)
(* create whose insert fails leave the persisted records unchanged: no     *)
(* step of such a request alters the store, whatever the other request in  *)
(* service is doing.                                                       *)
(***************************************************************************)
StepOf(s) == req'[s] # req[s]

\* After the step the request is a read, has not passed validation, or has
\* had its storage call fail.
WritesNothing(r) ==
  \/ r.op \in {"getAll", "getById"}
  \/ ~r.nextCalled
  \/ r.thrown # <<>>

StoreLeftUnchanged ==
  [][\A s \in Slots : (StepOf(s) /\ WritesNothing(req'[s])) => store' = store]_vars

\* An insert has failed while one record was persisted, and one record is.
FailedCreateLeftStore ==
  \E s \in Slots :
    /\ req[s].op = "create" /\ req[s].pc = "done" /\ req[s].thrown # <<>>
    /\ req[s].seen = << [fn |-> "create", len |-> 1] >>
    /\ Len(store) = 1

(***************************************************************************)
(* C30.  For an unchanged store, a fixed filter and limit, and sorting by  *)
(* id, the pages 1..totalPages of List together contain every matching     *)
(* record exactly once, and every page greater than totalPages is a 200    *)
(* with empty data.  Page p holds the matching records of ranks            *)
(* (p - 1) * limit + 1 .. p * limit in the id order, as far as there are   *)
(* any; two different pages over the same store share no record.           *)
(***************************************************************************)
\* The position of row among the matching records of the first n, by id.
RankById(row, n, author, search, sortOrder) ==
  Cardinality({j \in 1..n :
                 /\ Eligible(store[j], author, search)
                 /\ IF sortOrder = "asc" THEN store[j].id <= row.id
                    ELSE store[j].id >= row.id})

PageIsSegment(data, n, v, author, search) ==
  /\ Shown(data, EligibleIn(n, author, search), (v.page - 1) * v.limit, v.limit)
  /\ \A i \in DOMAIN data :
       /\ \E j \in 1..n : store[j] = data[i] /\ Eligible(store[j], author, search)
       /\ RankById(data[i], n, author, search, v.sortOrder) = (v.page - 1) * v.limit + i

EmptyPastLast(r, resp, v) ==
  (SeenLen(r, "count") = SeenLen(r, "findMany") /\ v.page > resp.body.pagination.totalPages) =>
    (resp.status = 200 /\ resp.body.data = <<>>)

ListById(r) == ListAnswered(r) /\ r.validatedQuery[1].sortBy = "id"

SamePaging(r, q, v, w) ==
  /\ SeenLen(r, "findMany") = SeenLen(q, "findMany")
  /\ v.limit = w.limit /\ v.author = w.author /\ v.search = w.search
  /\ v.sortOrder = w.sortOrder

NoneShared(a, b) == \A i \in DOMAIN a, j \in DOMAIN b : a[i] # b[j]

PagesPartition ==
  /\ \A s \in Slots :
       ListById(req[s]) =>
         /\ PageIsSegment(req[s].responses[1].body.data, SeenLen(req[s], "findMany"),
                          req[s].validatedQuery[1], Given(req[s].query.author),
                          Given(req[s].query.search))
         /\ EmptyPastLast(req[s], req[s].responses[1], req[s].validatedQuery[1])
  /\ \A s, t \in Slots :
       (/\ ListById(req[s]) /\ ListById(req[t])
        /\ SamePaging(req[s], req[t], req[s].validatedQuery[1], req[t].validatedQuery[1])
        /\ req[s].validatedQuery[1].page # req[t].validatedQuery[1].page) =>
         NoneShared(req[s].responses[1].body.data, req[t].responses[1].body.data)

\* Pages 1 and 2 of size 1 over the same two records hold one record each,
\* and the two are the store.
TwoPagesCoverStore ==
  /\ ListById(req[1]) /\ ListById(req[2])
  /\ req[1].validatedQuery[1].page = 1 /\ req[2].validatedQuery[1].page = 2
  /\ req[1].validatedQuery[1].limit = 1 /\ req[2].validatedQuery[1].limit = 1
  /\ SeenLen(req[1], "findMany") = 2 /\ SeenLen(req[2], "findMany") = 2
  /\ req[1].responses[1].body.pagination.totalPages = 2
  /\ {store[1], store[2]} =
       {req[1].responses[1].body.data[1], req[2].responses[1].body.data[1]}
  /\ Len(store) = 2 /\ store[1] # store[2]

====
